---- MODULE Spec2Model ----
(***************************************************************************)
(* progressbar widgets (src/progressbar/widgets.py).                       *)
(*                                                                         *)
(* Python values are modelled as follows:                                  *)
(*   - str            a TLA+ string ("\o" is +, Len is len)                *)
(*   - None / a value <<>> / <<v>>                                         *)
(*   - a dict         a function whose DOMAIN is the set of keys           *)
(*   - a format template  a sequence of tokens, <<"lit", text>> for plain  *)
(*                    text and <<conv, name>> for %(name)conv              *)
(*   - a value that a template can substitute  <<"int", n>>, <<"str", s>>, *)
(*                    <<"none">>, <<"rat", num, den>> (a float num/den)    *)
(*   - a call's outcome  [exc |-> "" , str |-> returned string] or         *)
(*                    [exc |-> name of the raised exception, str |-> ""]   *)
(* Times are whole seconds.                                                *)
(***************************************************************************)
EXTENDS Integers, Sequences, FiniteSets, TLC

\* ----------------------------------------------------------------- bounds
MaxValue == 2       \* values a bar takes are min_value..MaxValue
MaxSteps == 3       \* driver calls (update / finish) in a run
MaxSamples == 2     \* largest configured sample capacity

VARIABLES
    bars,       \* the live ProgressBar instances
    progress,   \* progress[b]: the fields of bar b that widgets read
    extra,      \* extra[o]: the dict held by object o (a bar's progress.extra)
    widgets,    \* the widget list, shared by every live bar
    solo,       \* solo[b]: bar b's extra had only b's renders happened
    rendered,   \* what the last render pass did: its bar, snapshot, calls
    args,       \* the arguments of a single widget call
    ret         \* what that call returned

vars == <<bars, progress, extra, widgets, solo, rendered, args, ret>>

\* ----------------------------------------------------------- Python values
None == <<>>
Some(v) == <<v>>

Ok(s) == [exc |-> "", str |-> s]
Raise(e) == [exc |-> e, str |-> ""]

Abs(n) == IF n < 0 THEN -n ELSE n

\* int(a / b) for b # 0: Python's int() truncates toward zero
TruncDiv(a, b) ==
    IF (a >= 0) = (b > 0) THEN Abs(a) \div Abs(b) ELSE -(Abs(a) \div Abs(b))

\* dict.setdefault(k, v), as the dict afterwards
SetDefault(d, k, v) == IF k \in DOMAIN d THEN d ELSE d @@ (k :> v)

\* seq[i] with Python's indices: 0-based, negative ones count from the end
PyIndexOk(seq, i) == -Len(seq) <= i /\ i < Len(seq)
PyIndex(seq, i) == IF i < 0 THEN seq[Len(seq) + i + 1] ELSE seq[i + 1]

DigitChar(d) ==
    CASE d = 0 -> "0" [] d = 1 -> "1" [] d = 2 -> "2" [] d = 3 -> "3"
      [] d = 4 -> "4" [] d = 5 -> "5" [] d = 6 -> "6" [] d = 7 -> "7"
      [] d = 8 -> "8" [] d = 9 -> "9"

RECURSIVE NatStr(_)
NatStr(n) == IF n < 10 THEN DigitChar(n) ELSE NatStr(n \div 10) \o DigitChar(n % 10)

\* str(n) of an int
Str(n) == IF n < 0 THEN "-" \o NatStr(-n) ELSE NatStr(n)

\* s * n
RECURSIVE Repeat(_, _)
Repeat(s, n) == IF n <= 0 THEN "" ELSE s \o Repeat(s, n - 1)

\* s.ljust(width, fill) / s.rjust(width, fill), fill one character
LJust(s, width, fill) == s \o Repeat(fill, width - Len(s))
RJust(s, width, fill) == Repeat(fill, width - Len(s)) \o s

\* ------------------------------------------------------- "format % data"
\* '%5.1f' % (num / den), den > 0: one decimal, ties to even, right-justified
\* in 5 columns.  (A tie of the rational that is no tie of its float is
\* rounded by the float's error in Python; the model rounds it to even.)
Fixed51(num, den) ==
    LET n == 10 * Abs(num)
        q == n \div den
        r == n % den
        t == IF 2 * r > den \/ (2 * r = den /\ q % 2 = 1) THEN q + 1 ELSE q
        body == NatStr(t \div 10) \o "." \o DigitChar(t % 10)
    IN  RJust(IF num < 0 THEN "-" \o body ELSE body, 5, " ")

\* the text of one conversion %(name)conv applied to value v, or what it raises
\* (str() of a float is not modelled: no template of the model asks for it)
Convert(conv, v) ==
    CASE conv = "s" ->
            (CASE v[1] = "int" -> Ok(Str(v[2]))
               [] v[1] = "str" -> Ok(v[2])
               [] v[1] = "none" -> Ok("None"))
      [] conv = "d" ->
            (CASE v[1] = "int" -> Ok(Str(v[2]))
               [] v[1] = "rat" -> Ok(Str(TruncDiv(v[2], v[3])))
               [] OTHER -> Raise("TypeError"))
      [] conv = "5.1f" ->
            (CASE v[1] = "int" -> Ok(Fixed51(v[2], 1))
               [] v[1] = "rat" -> Ok(Fixed51(v[2], v[3]))
               [] OTHER -> Raise("TypeError"))

\* the text of one token of a template, or what substituting it raises
Format_token(tok, data) ==
    IF tok[1] = "lit" THEN Ok(tok[2])
    ELSE IF tok[2] \notin DOMAIN data THEN Raise("KeyError")
    ELSE Convert(tok[1], data[tok[2]])

\* the text of a token followed by the text of the rest of its template
Format_concat(first, rest) ==
    IF rest.exc # "" THEN rest ELSE Ok(first.str \o rest.str)

\* template % data: tokens are substituted left to right, the first missing
\* key raises KeyError, the first unconvertible value TypeError
RECURSIVE Format(_, _)
Format_from(first, template, data) ==
    IF first.exc # "" THEN first
    ELSE Format_concat(first, Format(Tail(template), data))

Format(template, data) ==
    IF template = <<>> THEN Ok("")
    ELSE Format_from(Format_token(Head(template), data), template, data)

\* the except clause of FormatWidgetMixin.__call__ returning an empty string
\* where it should raise again
FormatWidgetMixin_except_swallow(r) == IF r.exc # "" THEN Ok("") ELSE r

\* the except clause of FormatWidgetMixin.__call__: a TypeError or KeyError
\* is reported on stderr and raised again
FormatWidgetMixin_except(r) ==
    IF r.exc \in {"TypeError", "KeyError"} THEN Raise(r.exc) ELSE r

\* FormatWidgetMixin.__call__: format % data
FormatWidgetMixin_call(format, data) ==
    FormatWidgetMixin_except(Format(format, data))

\* Timer.format_time: str(datetime.timedelta(seconds=int(seconds)))
format_time(seconds) ==
    LET days == seconds \div 86400
        rem == seconds % 86400
        two(n) == IF n < 10 THEN "0" \o NatStr(n) ELSE NatStr(n)
        clock == NatStr(rem \div 3600) \o ":" \o two((rem % 3600) \div 60)
                     \o ":" \o two(rem % 60)
    IN  IF days = 0 THEN clock
        ELSE Str(days) \o (IF Abs(days) = 1 THEN " day, " ELSE " days, ") \o clock

\* FormatLabel.mapping: name -> <<key, whether Timer.format_time transforms it>>
\* (the dict literal gives 'elapsed' twice; the later entry stands)
FormatLabel_mapping ==
    [name \in {"elapsed", "finished", "last_update", "max", "seconds", "start",
               "value"} |->
        CASE name = "elapsed" -> <<"total_seconds_elapsed", TRUE>>
          [] name = "finished" -> <<"end_time", FALSE>>
          [] name = "last_update" -> <<"last_update_time", FALSE>>
          [] name = "max" -> <<"max_value", FALSE>>
          [] name = "seconds" -> <<"seconds_elapsed", FALSE>>
          [] name = "start" -> <<"start_time", FALSE>>
          [] name = "value" -> <<"value", FALSE>>]

\* the data dict after FormatLabel's loop: data[name] is set from data[key];
\* a missing key, or a value format_time cannot take, leaves name as it was
FormatLabel_data(data) ==
    LET m == FormatLabel_mapping
        set(name) == /\ m[name][1] \in DOMAIN data
                     /\ m[name][2] => data[m[name][1]][1] \in {"int", "rat"}
        new(name) == LET v == data[m[name][1]]
                     IN  IF ~m[name][2] THEN v
                         ELSE IF v[1] = "int" THEN <<"str", format_time(v[2])>>
                         ELSE <<"str", format_time(TruncDiv(v[2], v[3]))>>
        names == {name \in DOMAIN m : set(name)}
    IN  [k \in DOMAIN data \cup names |-> IF k \in names THEN new(k) ELSE data[k]]

\* FormatLabel.__call__: the outcome, and the data dict it leaves
FormatLabel_call(format, data) ==
    [out |-> FormatWidgetMixin_call(format, FormatLabel_data(data)),
     data |-> FormatLabel_data(data)]

\* ---------------------------------------------------------- SamplesMixin
\* SamplesMixin.__init__: the fields it sets.  The class name is never empty,
\* so "name or key_prefix" is the class name whatever key_prefix is given.
SamplesMixin_init(cls, samples, key_prefix) ==
    [samples |-> samples,
     key_prefix |-> (IF cls # "" THEN cls ELSE key_prefix) \o "_"]

\* the object whose dict holds the sample lists, taken as the widget itself
\* (one dict for every bar that renders the widget)
widget_extra(b) == 0

\* the object whose dict holds the sample lists of a render against bar b:
\* progress.extra, the bar's own dict
progress_extra(b) == b

\* get_sample_times / get_sample_values: the dict d after setdefault(key, [])
get_sample_times(w, d) == SetDefault(d, w.key_prefix \o "sample_times", <<>>)
get_sample_values(w, d) == SetDefault(d, w.key_prefix \o "sample_values", <<>>)

\* what SamplesMixin.__call__ leaves and returns: the dict, and the two lists
SamplesMixin_return(d, tk, vk, times, values) ==
    [extra |-> [d EXCEPT ![tk] = times, ![vk] = values],
     times |-> times, values |-> values]

\* the lists after the append: one entry is popped from the front when they
\* are longer than self.samples
SamplesMixin_limit(w, d, tk, vk, times, values) ==
    IF Len(times) > w.samples
    THEN SamplesMixin_return(d, tk, vk, Tail(times), Tail(values))
    ELSE SamplesMixin_return(d, tk, vk, times, values)

\* a sample is added when progress.value differs from progress.previous_value
SamplesMixin_sample(w, p, d, tk, vk) ==
    IF Some(p.value) # p.previous_value
    THEN SamplesMixin_limit(w, d, tk, vk, Append(d[tk], p.last_update_time),
                            Append(d[vk], p.value))
    ELSE SamplesMixin_return(d, tk, vk, d[tk], d[vk])

\* SamplesMixin.__call__ on the dict d: the dict afterwards and the two lists
\* it returns
SamplesMixin_call(w, p, d) ==
    SamplesMixin_sample(w, p, get_sample_values(w, get_sample_times(w, d)),
                        w.key_prefix \o "sample_times",
                        w.key_prefix \o "sample_values")

\* ------------------------------------------------------ ETA, AdaptiveETA
\* ETA._eta with the finished check made before the not-started check
ETA_eta_finished_first(p, value, elapsed) ==
    IF p.end_time # None THEN Ok("Time: " \o Str(elapsed))
    ELSE IF value = p.min_value THEN Ok("ETA:  --:--:--")
    ELSE IF p.max_value = None THEN Raise("TypeError")
    ELSE IF value = 0 THEN Raise("ZeroDivisionError")
    ELSE Ok("ETA: " \o format_time(
                TruncDiv(elapsed * p.max_value[1] - elapsed * value, value)))

\* ETA._eta.  elapsed * max_value is evaluated first (TypeError when max_value
\* is None), then the division by value, then int() of the difference.
ETA_eta(p, value, elapsed) ==
    IF value = p.min_value THEN Ok("ETA:  --:--:--")
    ELSE IF p.end_time # None THEN Ok("Time: " \o Str(elapsed))
    ELSE IF p.max_value = None THEN Raise("TypeError")
    ELSE IF value = 0 THEN Raise("ZeroDivisionError")
    ELSE Ok("ETA: " \o format_time(
                TruncDiv(elapsed * p.max_value[1] - elapsed * value, value)))

\* ETA.__call__
ETA_call(p, data) ==
    ETA_eta(p, data["value"][2], data["total_seconds_elapsed"][2])

\* AdaptiveETA.__call__ once the samples s are taken
AdaptiveETA_eta(p, data, s) ==
    [extra |-> s.extra, times |-> s.times, values |-> s.values,
     data |-> data, used |-> <<None, None>>,
     out |-> IF Len(s.times) <= 1 THEN ETA_call(p, data)
             ELSE ETA_eta(p, s.values[Len(s.values)] - s.values[1],
                          s.times[Len(s.times)] - s.times[1])]

\* AdaptiveETA.__call__ on the dict d
AdaptiveETA_call(w, p, data, d) ==
    AdaptiveETA_eta(p, data, SamplesMixin_call(w, p, d))

\* ----------------------------------- FileTransferSpeed, AdaptiveTransferSpeed
\* the largest k >= 0 with 1024^k <= q, for q >= 1
RECURSIVE ILog1024(_)
ILog1024(q) == IF q < 1024 THEN 0 ELSE 1 + ILog1024(q \div 1024)

\* int(math.log(value / elapsed, 2) / 10), value > 0, elapsed > 0: the
\* logarithm to base 1024, truncated toward zero
TruncLog1024(value, elapsed) ==
    IF value >= elapsed THEN ILog1024(value \div elapsed)
    ELSE -ILog1024(elapsed \div value)

Min(a, b) == IF a < b THEN a ELSE b

\* FileTransferSpeed._speed: (scaled, power), scaled the float
\* speed / 2 ** (10 * power) as a fraction
FileTransferSpeed_speed(w, value, elapsed) ==
    LET power == Min(TruncLog1024(value, elapsed), Len(w.prefixes) - 1)
    IN  [scaled |-> IF power >= 0 THEN <<"rat", value, elapsed * 1024 ^ power>>
                    ELSE <<"rat", value * 1024 ^ (-power), elapsed>>,
         power |-> power]

\* "a or b" for a number a and an optional b
PyOr(a, b) == IF a # 0 THEN Some(a) ELSE b

\* the end of FileTransferSpeed.__call__: the outcome, the data dict it
\* leaves, the value and elapsed the speed was computed from, and the power
FileTransferSpeed_return(w, data, v, e, power) ==
    [out |-> FormatWidgetMixin_call(w.format, data), data |-> data,
     used |-> <<v, e>>, power |-> power]

\* data['scaled'], data['prefix'], data['unit'] are set; prefixes[power]
\* raises IndexError when power is no index of the table
FileTransferSpeed_set(w, data, v, e, sp) ==
    IF ~PyIndexOk(w.prefixes, sp.power)
    THEN [out |-> Raise("IndexError"), data |-> ("scaled" :> sp.scaled) @@ data,
          used |-> <<v, e>>, power |-> sp.power]
    ELSE FileTransferSpeed_return(
             w,
             ("prefix" :> <<"str", PyIndex(w.prefixes, sp.power)>>)
                 @@ ("unit" :> <<"str", w.unit>>)
                 @@ ("scaled" :> sp.scaled) @@ data,
             v, e, sp.power)

\* the speed is scaled when elapsed and value are above 2e-6, which a whole
\* number is when it is at least 1 and None never is
FileTransferSpeed_scale(w, data, v, e) ==
    FileTransferSpeed_set(
        w, data, v, e,
        IF e # None /\ v # None /\ e[1] > 0 /\ v[1] > 0
        THEN FileTransferSpeed_speed(w, v[1], e[1])
        ELSE [scaled |-> <<"int", 0>>, power |-> 0])

\* FileTransferSpeed.__call__
FileTransferSpeed_call(w, data, value, total_seconds_elapsed) ==
    FileTransferSpeed_scale(
        w, data, PyOr(data["value"][2], value),
        PyOr(data["total_seconds_elapsed"][2], total_seconds_elapsed))

\* what AdaptiveTransferSpeed.__call__ leaves and returns, r being what
\* FileTransferSpeed.__call__ did
AdaptiveTransferSpeed_return(s, r) ==
    [extra |-> s.extra, times |-> s.times, values |-> s.values,
     data |-> r.data, out |-> r.out, used |-> r.used]

\* AdaptiveTransferSpeed.__call__ once the samples s are taken
AdaptiveTransferSpeed_window(w, data, s) ==
    AdaptiveTransferSpeed_return(
        s,
        IF Len(s.times) <= 1
        THEN FileTransferSpeed_call(w, data, None, None)
        ELSE FileTransferSpeed_call(
                 w, data, Some(s.values[Len(s.values)] - s.values[1]),
                 Some(s.times[Len(s.times)] - s.times[1])))

\* AdaptiveTransferSpeed.__call__ on the dict d
AdaptiveTransferSpeed_call(w, p, data, d) ==
    AdaptiveTransferSpeed_window(w, data, SamplesMixin_call(w, p, d))

\* ------------------------------------------------------------ the widgets
Lit(s) == <<"lit", s>>

\* Timer.__init__'s default format, 'Elapsed Time: %(time_elapsed)s'
Timer_format == <<Lit("Elapsed Time: "), <<"s", "time_elapsed">>>>

\* FileTransferSpeed.__init__'s defaults
FileTransferSpeed_format ==
    <<(<<"5.1f", "scaled">>), Lit(" "), <<"s", "prefix">>, <<"s", "unit">>>>
FileTransferSpeed_prefixes == <<"", "ki", "Mi", "Gi", "Ti", "Pi", "Ei", "Zi", "Yi">>

\* ETA(): Timer.__init__ sets format; SamplesMixin is no base of it
ETA == [cls |-> "ETA", format |-> Timer_format, samples |-> 0,
        key_prefix |-> "", unit |-> "", prefixes |-> <<>>]

\* AdaptiveETA with capacity n (SamplesMixin.__init__ is reached through
\* super().__init__() with the class's name)
AdaptiveETA(n) ==
    LET m == SamplesMixin_init("AdaptiveETA", n, "")
    IN  [cls |-> "AdaptiveETA", format |-> Timer_format, samples |-> m.samples,
         key_prefix |-> m.key_prefix, unit |-> "", prefixes |-> <<>>]

\* AdaptiveTransferSpeed with capacity n and the given prefix table
AdaptiveTransferSpeed(n, prefixes) ==
    LET m == SamplesMixin_init("AdaptiveTransferSpeed", n, "")
    IN  [cls |-> "AdaptiveTransferSpeed", format |-> FileTransferSpeed_format,
         samples |-> m.samples, key_prefix |-> m.key_prefix, unit |-> "B",
         prefixes |-> prefixes]

\* one widget's __call__ against snapshot p, data dict data and extra dict d
WidgetCall(w, p, data, d) ==
    CASE w.cls = "ETA" ->
            [extra |-> d, times |-> <<>>, values |-> <<>>, data |-> data,
             out |-> ETA_call(p, data), used |-> <<None, None>>]
      [] w.cls = "AdaptiveETA" -> AdaptiveETA_call(w, p, data, d)
      [] w.cls = "AdaptiveTransferSpeed" ->
            AdaptiveTransferSpeed_call(w, p, data, d)

\* ------------------------------------------------ the bar (the driver's side)
Bars == {1, 2}
Stores == {0} \cup Bars      \* 0: the widgets' own attributes
EmptyDict == [k \in {} |-> <<>>]

\* a bar as constructed and started
NewBar(min_value, max_value) ==
    [value |-> min_value, previous_value |-> None, min_value |-> min_value,
     max_value |-> max_value, start_time |-> 0, last_update_time |-> 0,
     end_time |-> None]

OptValue(o) == IF o = None THEN <<"none">> ELSE <<"int", o[1]>>

\* the data dict the bar hands to every widget of one render pass (the
\* variables named in FormatWidgetMixin's docstring and FormatLabel.mapping)
Data(p) ==
    LET elapsed == p.last_update_time - p.start_time
    IN  ("value" :> <<"int", p.value>>)
        @@ ("max_value" :> OptValue(p.max_value))
        @@ ("total_seconds_elapsed" :> <<"int", elapsed>>)
        @@ ("seconds_elapsed" :> <<"int", elapsed % 60>>)
        @@ ("time_elapsed" :> <<"str", format_time(elapsed)>>)
        @@ ("start_time" :> <<"int", p.start_time>>)
        @@ ("last_update_time" :> <<"int", p.last_update_time>>)
        @@ ("end_time" :> OptValue(p.end_time))

\* what a render pass records of one call: its outcome, the sample lists the
\* widget found and those it returned
CallRecord(w, d, r) ==
    [out |-> r.out, times |-> r.times, values |-> r.values,
     found |-> IF w.key_prefix \o "sample_values" \in DOMAIN d
               THEN d[w.key_prefix \o "sample_values"] ELSE <<>>,
     used |-> r.used, data |-> r.data]

format_widgets_join(call, rest) ==
    [heap |-> rest.heap, calls |-> <<call>> \o rest.calls]

\* one render pass of bar b: the widgets are called in list order with one
\* data dict; an exception ends the pass
RECURSIVE format_widgets(_, _, _, _, _)
format_widgets_next(ws, b, p, heap, o, r) ==
    IF r.out.exc # ""
    THEN [heap |-> [heap EXCEPT ![o] = r.extra],
          calls |-> <<CallRecord(Head(ws), heap[o], r)>>]
    ELSE format_widgets_join(
             CallRecord(Head(ws), heap[o], r),
             format_widgets(Tail(ws), b, p, r.data, [heap EXCEPT ![o] = r.extra]))

format_widgets(ws, b, p, data, heap) ==
    IF ws = <<>> THEN [heap |-> heap, calls |-> <<>>]
    ELSE format_widgets_next(
             ws, b, p, heap, progress_extra(b),
             WidgetCall(Head(ws), p, data, heap[progress_extra(b)]))

\* bar b's extra after a pass over a dict that only b's renders ever touched
SoloPass(b, p) ==
    format_widgets(
        widgets, b, p, Data(p),
        [s \in Stores |-> IF s = progress_extra(b) THEN solo[b] ELSE EmptyDict]
    ).heap[progress_extra(b)]

\* the driver calls made so far: each one advances its bar's clock by one
Calls == progress[1].last_update_time + progress[2].last_update_time

\* the machine after a pass r of bar b with snapshot p
Drawn(b, p, r) ==
    /\ extra' = r.heap
    /\ rendered' = [bar |-> b, progress |-> p, calls |-> r.calls]
    /\ solo' = [solo EXCEPT ![b] = SoloPass(b, p)]

\* the pass of bar b with snapshot p, as a step of the machine
Draw(b, p) == Drawn(b, p, format_widgets(widgets, b, p, Data(p), extra))

\* bar.update(value): the value is accepted when in range, the previous one
\* is kept, and the line is drawn when the bar finds a redraw due
update(b, v, draw) ==
    LET p == progress[b]
        q == [p EXCEPT !.previous_value = Some(p.value), !.value = v,
                       !.last_update_time = @ + 1]
    IN  /\ b \in bars
        /\ p.end_time = None
        /\ Calls < MaxSteps
        /\ p.min_value <= v
        /\ p.max_value # None => v <= p.max_value[1]
        /\ progress' = [progress EXCEPT ![b] = q]
        /\ IF draw THEN Draw(b, q) ELSE UNCHANGED <<extra, rendered, solo>>
        /\ UNCHANGED <<bars, widgets, args, ret>>

\* bar.update() with no value (a timed redraw): the line is drawn again
redraw(b) ==
    LET p == progress[b]
        q == [p EXCEPT !.last_update_time = @ + 1]
    IN  /\ b \in bars
        /\ p.end_time = None
        /\ Calls < MaxSteps
        /\ progress' = [progress EXCEPT ![b] = q]
        /\ Draw(b, q)
        /\ UNCHANGED <<bars, widgets, args, ret>>

\* bar.finish(): the end time is set and the line drawn a last time
finish(b) ==
    LET p == progress[b]
        q == [p EXCEPT !.last_update_time = @ + 1,
                       !.end_time = Some(p.last_update_time + 1)]
    IN  /\ b \in bars
        /\ p.end_time = None
        /\ Calls < MaxSteps
        /\ progress' = [progress EXCEPT ![b] = q]
        /\ Draw(b, q)
        /\ UNCHANGED <<bars, widgets, args, ret>>

\* ----------------------------------------------------------- specification
NoCall == [fn |-> "none"]

SamplingWidgets ==
    {AdaptiveETA(n) : n \in 1..MaxSamples}
        \cup {AdaptiveTransferSpeed(n, FileTransferSpeed_prefixes) : n \in 1..MaxSamples}

WidgetChoices == {ETA} \cup SamplingWidgets

\* every widget list of one or two widgets
WidgetLists ==
    {<<w>> : w \in WidgetChoices}
        \cup {<<w1, w2>> : w1 \in WidgetChoices, w2 \in SamplingWidgets}

\* <<min_value, max_value>> of the bars: a known maximum, a negative minimum,
\* an unknown maximum
Ranges == {<<0, Some(MaxValue)>>, <<-1, Some(MaxValue)>>, <<0, None>>}

InitBars(live, lists) ==
    /\ bars = live
    /\ widgets \in lists
    /\ \E r \in Ranges : progress = [b \in Bars |-> NewBar(r[1], r[2])]
    /\ extra = [s \in Stores |-> EmptyDict]
    /\ solo = [b \in Bars |-> EmptyDict]
    /\ rendered = [bar |-> 0, progress |-> NewBar(0, None), calls |-> <<>>]
    /\ args = NoCall
    /\ ret = Ok("")

\* one bar and its widget list
Init == InitBars({1}, WidgetLists)

Next ==
    \/ \E b \in Bars, v \in -1..MaxValue, draw \in BOOLEAN : update(b, v, draw)
    \/ \E b \in Bars : redraw(b)
    \/ \E b \in Bars : finish(b)

Spec == Init /\ [][Next]_vars

\* two bars that render one shared sampling widget
InitShared == InitBars(Bars, {<<w>> : w \in SamplingWidgets})

SpecShared == InitShared /\ [][Next]_vars

\* ------------------------------------------- Bar, ReverseBar, BouncingBar
\* Bar.__init__: a string border or fill becomes lambda: input_ % data, a
\* one-character marker string becomes __marker
Bar(marker, left, right, fill, fill_left) ==
    [cls |-> "Bar", marker |-> marker, left |-> left, right |-> right,
     fill |-> fill, fill_left |-> fill_left]

\* ReverseBar.__init__: Bar.__init__ with the arguments passed on
ReverseBar(marker, left, right, fill, fill_left) ==
    [Bar(marker, left, right, fill, fill_left) EXCEPT !.cls = "ReverseBar"]

\* __marker: the marker repeated int(value / max_value * width) times when
\* max_value > 0 (None is not above 0), else ''.  The float product equals
\* the exact one for every input of the model.
Bar_marker(marker, p, width) ==
    IF p.max_value # None /\ p.max_value[1] > 0
    THEN Repeat(marker, TruncDiv(p.value * width, p.max_value[1]))
    ELSE ""

\* Bar.__call__ with the marker's length taken from the whole width, the
\* borders not subtracted
Bar_call_whole_width(bar, p, data, width) ==
    LET left == Format(bar.left, data)
        right == Format(bar.right, data)
        fill == Format(bar.fill, data)
        marker == Bar_marker(bar.marker, p, width)
    IN  IF left.exc # "" THEN left
        ELSE IF right.exc # "" THEN right
        ELSE IF fill.exc # "" THEN fill
        ELSE IF Len(fill.str) # 1 THEN Raise("TypeError")
        ELSE Ok(left.str
                  \o (IF bar.fill_left THEN LJust(marker, width, fill.str)
                      ELSE RJust(marker, width, fill.str))
                  \o right.str)

\* Bar.__call__ (ReverseBar inherits it)
Bar_call(bar, p, data, width) ==
    LET left == Format(bar.left, data)
        right == Format(bar.right, data)
        inner == width - (Len(left.str) + Len(right.str))
        fill == Format(bar.fill, data)
        marker == Bar_marker(bar.marker, p, inner)
    IN  IF left.exc # "" THEN left
        ELSE IF right.exc # "" THEN right
        ELSE IF fill.exc # "" THEN fill
        ELSE IF Len(fill.str) # 1 THEN Raise("TypeError")
        ELSE Ok(left.str
                  \o (IF bar.fill_left THEN LJust(marker, inner, fill.str)
                      ELSE RJust(marker, inner, fill.str))
                  \o right.str)

\* a % m as Python computes it: the result has the sign of m (m # 0)
PyMod(a, m) == IF m > 0 THEN a % m ELSE -((-a) % (-m))

\* BouncingBar.update's marker position for the inner width
BouncingBar_position(value, width) ==
    LET position == PyMod(value, width * 2 - 1)
    IN  IF position > width THEN width * 2 - position ELSE position

\* BouncingBar.update.  bb.sized tells whether left, marker, right and fill
\* are strings; as Bar.__init__ sets them they are functions, and len(left)
\* raises TypeError.
BouncingBar_update(bb, finished, value, width) ==
    IF ~bb.sized THEN [out |-> Raise("TypeError"), position |-> None]
    ELSE LET inner == width - (Len(bb.left) + Len(bb.right))
             position == BouncingBar_position(value, inner)
             lpad == Repeat(bb.fill, position - 1)
             rpad == Repeat(bb.fill, inner - Len(bb.marker) - Len(lpad))
         IN  IF finished
             THEN [out |-> Ok(bb.left \o Repeat(bb.marker, inner) \o bb.right),
                   position |-> None]
             ELSE [out |-> Ok(bb.left
                               \o (IF bb.fill_left THEN lpad ELSE rpad)
                               \o bb.marker
                               \o (IF bb.fill_left THEN rpad ELSE lpad)
                               \o bb.right),
                   position |-> Some(position)]

\* --------------------------------------- single widget calls, by widget kind
MaxWidth == 20        \* widths handed to a bar widget are 0..MaxWidth
MaxBarValue == 10     \* max_value of a bar widget's snapshot is at most this
MaxBounceValue == 18  \* values BouncingBar.update is called with
MaxLog2 == 21         \* speeds are computed from numbers up to 2^MaxLog2 + 1

\* no bar is live: a behaviour makes one widget call
InitCalls ==
    /\ bars = {}
    /\ widgets = <<>>
    /\ progress = [b \in Bars |-> NewBar(0, None)]
    /\ extra = [s \in Stores |-> EmptyDict]
    /\ solo = [b \in Bars |-> EmptyDict]
    /\ rendered = [bar |-> 0, progress |-> NewBar(0, None), calls |-> <<>>]
    /\ args = NoCall
    /\ ret = Ok("")

Machine == <<bars, progress, extra, widgets, solo, rendered>>

\* snapshots with min_value <= value <= max_value, or max_value unknown
BarSnapshots ==
    {[NewBar(-1, Some(m)) EXCEPT !.value = v] : m \in 0..MaxBarValue, v \in -1..MaxBarValue}
        \cup {[NewBar(-1, None) EXCEPT !.value = v] : v \in -1..1}

InRange(p) ==
    p.min_value <= p.value /\ (p.max_value # None => p.value <= p.max_value[1])

\* <<left, right>> borders as templates: '|' and '|', or none
Borders == {<<(<<Lit("|")>>), <<Lit("|")>>>>, <<(<<>>), <<>>>>}

\* Bar(...)(progress, data, width)
BarCall ==
    /\ args = NoCall
    /\ \E p \in BarSnapshots, width \in 0..MaxWidth, lr \in Borders,
          fill_left \in BOOLEAN, marker \in {"#", "="} :
           /\ InRange(p)
           /\ args' = [fn |-> "Bar", p |-> p, width |-> width,
                       w |-> Bar(marker, lr[1], lr[2], <<Lit(" ")>>, fill_left)]
           /\ ret' = Bar_call(args'.w, p, Data(p), width)
           /\ UNCHANGED Machine

\* ReverseBar(...)(progress, data, width)
ReverseBarCall ==
    /\ args = NoCall
    /\ \E p \in BarSnapshots, width \in 0..MaxWidth, lr \in Borders,
          fill_left \in BOOLEAN, marker \in {"#", "="} :
           /\ InRange(p)
           /\ args' = [fn |-> "ReverseBar", p |-> p, width |-> width,
                       w |-> ReverseBar(marker, lr[1], lr[2], <<Lit(" ")>>, fill_left)]
           /\ ret' = Bar_call(args'.w, p, Data(p), width)
           /\ UNCHANGED Machine

\* BouncingBar(...).update(progress, width)
BouncingBarUpdate ==
    /\ args = NoCall
    /\ \E value \in 0..MaxBounceValue, width \in 0..MaxWidth, finished \in BOOLEAN,
          fill_left \in BOOLEAN, sized \in BOOLEAN :
           /\ args' = [fn |-> "BouncingBar.update", value |-> value,
                       width |-> width, finished |-> finished,
                       w |-> [sized |-> sized, left |-> "|", right |-> "|",
                              marker |-> "#", fill |-> " ", fill_left |-> fill_left]]
           /\ ret' = BouncingBar_update(args'.w, finished, value, width)
           /\ UNCHANGED Machine

NextBar == BarCall \/ ReverseBarCall \/ BouncingBarUpdate

SpecBar == InitCalls /\ [][NextBar]_vars

\* the numbers speeds are computed from: 0 and the neighbours of powers of 2
SpeedNumbers ==
    {0} \cup {2 ^ k + d : k \in 1..MaxLog2, d \in {-1, 0, 1}} \cup {1}

\* FileTransferSpeed(prefixes=...)
FileTransferSpeed(prefixes) ==
    [cls |-> "FileTransferSpeed", format |-> FileTransferSpeed_format,
     samples |-> 0, key_prefix |-> "", unit |-> "B", prefixes |-> prefixes]

\* FileTransferSpeed(...)(progress, data), with the default prefix table or
\* a table of two
FileTransferSpeedCall ==
    /\ args = NoCall
    /\ \E value \in SpeedNumbers, elapsed \in SpeedNumbers,
          prefixes \in {FileTransferSpeed_prefixes, <<"", "k">>} :
           /\ args' = [fn |-> "FileTransferSpeed", value |-> value,
                       elapsed |-> elapsed, w |-> FileTransferSpeed(prefixes)]
           /\ ret' = FileTransferSpeed_call(
                         args'.w,
                         ("value" :> <<"int", value>>)
                             @@ ("total_seconds_elapsed" :> <<"int", elapsed>>),
                         None, None)
           /\ UNCHANGED Machine

NextSpeed == FileTransferSpeedCall

SpecSpeed == InitCalls /\ [][NextSpeed]_vars

\* field names a template of the model may reference
TemplateFields == {"value", "max_value", "max", "elapsed", "finished", "x"}

Conversions == {<<c, f>> : c \in {"s", "d"}, f \in TemplateFields}

\* templates with one or two conversions
Templates ==
    {<<Lit("L "), c>> : c \in Conversions}
        \cup {<<c1, Lit("/"), c2>> : c1 \in Conversions, c2 \in Conversions}

\* d restricted to the keys in K
Restrict(d, K) == [k \in DOMAIN d \cap K |-> d[k]]

\* field maps: what the bar supplies for a few snapshots, some keys left out
FieldMaps ==
    {Restrict(Data([NewBar(0, m) EXCEPT !.value = v, !.last_update_time = v]), K) :
        m \in {None, Some(1)}, v \in 0..1,
        K \in SUBSET {"value", "max_value", "total_seconds_elapsed", "end_time"}}

\* a widget that is FormatWidgetMixin and nothing more (Counter, Percentage,
\* SimpleProgress, Timer), called with (progress, data)
FormatWidgetCall ==
    /\ args = NoCall
    /\ \E format \in Templates, data \in FieldMaps :
           /\ args' = [fn |-> "FormatWidgetMixin", format |-> format, data |-> data]
           /\ ret' = FormatWidgetMixin_call(format, data)
           /\ UNCHANGED Machine

\* FormatLabel(format)(progress, data)
FormatLabelCall ==
    /\ args = NoCall
    /\ \E format \in Templates, data \in FieldMaps :
           /\ args' = [fn |-> "FormatLabel", format |-> format, data |-> data]
           /\ ret' = FormatLabel_call(format, data).out
           /\ UNCHANGED Machine

NextFormat == FormatWidgetCall \/ FormatLabelCall

SpecFormat == InitCalls /\ [][NextFormat]_vars

\* ------------------------------------------------------------------ claims
IsSampling(w) == w.cls \in {"AdaptiveETA", "AdaptiveTransferSpeed"}

\* the keys under which sampling widgets keep their recorded values
ValueKeys == {w.key_prefix \o "sample_values" : w \in SamplingWidgets}

NoEqualNeighbours(seq) == \A i \in 1..(Len(seq) - 1) : seq[i] # seq[i + 1]

\* C1: after any sequence of renders, no list of recorded values in a bar's
\* extra holds two adjacent equal entries.
C1_NoAdjacentEqualSamples ==
    \A b \in bars : \A k \in DOMAIN extra[b] \cap ValueKeys :
        NoEqualNeighbours(extra[b][k])

\* the last n entries of seq
LastN(seq, n) == IF Len(seq) <= n THEN seq ELSE SubSeq(seq, Len(seq) - n + 1, Len(seq))

\* C2: the sample lists returned to a sampling widget of capacity N hold at
\* most N entries, and a recorded sample that exceeds the capacity evicts the
\* oldest entries, whatever other sampling widgets the list holds.
C2_BufferWithinCapacity ==
    \A i \in 1..Len(rendered.calls) :
        IsSampling(widgets[i]) =>
            LET c == rendered.calls[i]
                p == rendered.progress
                N == widgets[i].samples
            IN  /\ Len(c.times) <= N
                /\ Len(c.values) <= N
                /\ Some(p.value) # p.previous_value =>
                       c.values = LastN(Append(c.found, p.value), N)

\* C3: with one sampling widget rendered against two bars in any
\* interleaving, the sample lists each bar's renders work on are those the
\* bar would hold had only its own renders happened, and no render changes a
\* field of the widget.
C3_SharedWidgetIsolation ==
    /\ [](\A b \in bars : extra[progress_extra(b)] = solo[b])
    /\ [][widgets' = widgets]_vars

\* both bars have recorded samples of their own, and different ones
C3_Witness ==
    /\ bars = Bars
    /\ \E k \in DOMAIN extra[1] \cap DOMAIN extra[2] \cap ValueKeys :
          /\ extra[1][k] # <<>>
          /\ extra[2][k] # <<>>
          /\ extra[1][k] # extra[2][k]

\* C4: ETA rendered for a snapshot with value = min_value returns the literal
\* 'ETA:  --:--:--', finished or not and whatever the elapsed time.
C4_ETANotStartedLiteral ==
    \A i \in 1..Len(rendered.calls) :
        (widgets[i].cls = "ETA" /\ rendered.progress.value = rendered.progress.min_value)
            => rendered.calls[i].out = Ok("ETA:  --:--:--")

\* ETA was rendered for a finished bar still at its minimum, time having passed
C4_Witness ==
    /\ rendered.calls # <<>>
    /\ widgets[1].cls = "ETA"
    /\ rendered.progress.value = rendered.progress.min_value
    /\ rendered.progress.end_time # None
    /\ rendered.progress.last_update_time > 1
    /\ rendered.calls[1].out = Ok("ETA:  --:--:--")

\* C9: whenever AdaptiveTransferSpeed holds at least two samples after
\* recording, the value and elapsed it computes the speed from are the
\* window's newest.value - oldest.value and newest.time - oldest.time.
\* (Stated for windows in which both differences are positive, where the
\* window's speed and the speed of the totals are both defined.)
C9_SpeedFromSampleWindow ==
    \A i \in 1..Len(rendered.calls) :
        LET c == rendered.calls[i]
            n == Len(c.times)
        IN  (/\ widgets[i].cls = "AdaptiveTransferSpeed"
             /\ n >= 2
             /\ c.values[n] > c.values[1]
             /\ c.times[n] > c.times[1])
                => c.used = <<Some(c.values[n] - c.values[1]),
                              Some(c.times[n] - c.times[1])>>

\* the marker position of a true reflection over 0..width-1
Reflect(value, width) ==
    LET r == value % (2 * (width - 1))
    IN  IF r < width THEN r ELSE 2 * (width - 1) - r

\* C5: BouncingBar with inner width 10, not finished: for value 0..18 the
\* marker position is 0,1,...,9,8,...,1,0 and stays below the width.
C5_BouncingPositionReflects ==
    (/\ args.fn = "BouncingBar.update"
     /\ args.w.sized
     /\ ~args.finished
     /\ args.width - 2 = 10
     /\ args.value \in 0..18)
        => /\ ret.position = Some(Reflect(args.value, 10))
           /\ ret.position[1] < 10

\* the scenario of C6: Bar('#', '|', '|', ' ') with width 20, value 5 of 10
C6_Scenario ==
    /\ args.fn = "Bar"
    /\ args.w = Bar("#", <<Lit("|")>>, <<Lit("|")>>, <<Lit(" ")>>, TRUE)
    /\ args.width = 20
    /\ args.p.value = 5
    /\ args.p.max_value = Some(10)

\* C6 as stated: the scenario returns '|', 10 markers, 10 spaces, '|'.
C6_TenMarkers ==
    C6_Scenario => ret = Ok("|" \o Repeat("#", 10) \o Repeat(" ", 10) \o "|")

\* C6 as amended: the scenario returns '|', 9 markers, 9 spaces, '|', which
\* is 20 characters, the borders counted in the width.
C6_NineMarkers ==
    C6_Scenario => ret = Ok("|#########         |")

C6_Witness == C6_Scenario /\ ret = Ok("|#########         |") /\ Len(ret.str) = 20

\* C7: for every width W >= 0 and snapshot in range, Bar and ReverseBar with
\* string borders and a one-character marker return exactly W characters.
C7_BarFillsWidth ==
    args.fn \in {"Bar", "ReverseBar"}
        => ret.exc = "" /\ Len(ret.str) = args.width

\* the fields format references that the field map fields lacks
Missing(format, fields) ==
    {format[i][2] : i \in {j \in 1..Len(format) : format[j][1] # "lit"}}
        \ DOMAIN fields

\* the field map a call's template is applied to
FieldsOf(a) == IF a.fn = "FormatLabel" THEN FormatLabel_data(a.data) ELSE a.data

\* C8 as stated: a format widget whose template references a field absent
\* from the field map ends in KeyError, and returns no string.
C8_MissingFieldKeyError ==
    (/\ args.fn \in {"FormatWidgetMixin", "FormatLabel"}
     /\ Missing(args.format, FieldsOf(args)) # {})
        => ret = Raise("KeyError")

\* a conversion of format fails on the type of its value before any
\* reference to a missing field is reached
TypeFailsFirst(format, fields) ==
    \E i \in 1..Len(format) :
        /\ format[i][1] = "d"
        /\ format[i][2] \in DOMAIN fields
        /\ fields[format[i][2]][1] \notin {"int", "rat"}
        /\ \A j \in 1..(i - 1) :
              format[j][1] # "lit" => format[j][2] \in DOMAIN fields

\* C8 as amended: such a render ends in an error that reaches the caller and
\* returns no string; the error is KeyError unless a conversion earlier in
\* the template has failed on its value's type, and then it is that TypeError.
C8_MissingFieldRaises ==
    (/\ args.fn \in {"FormatWidgetMixin", "FormatLabel"}
     /\ Missing(args.format, FieldsOf(args)) # {})
        => /\ ret.str = ""
           /\ ret.exc = IF TypeFailsFirst(args.format, FieldsOf(args))
                        THEN "TypeError" ELSE "KeyError"

\* FormatLabel rendered a template naming a field its mapping could not set
C8_Witness ==
    /\ args.fn = "FormatLabel"
    /\ "max" \in Missing(args.format, FieldsOf(args))
    /\ "elapsed" \in DOMAIN FieldsOf(args)
    /\ ret = Raise("KeyError")

\* 1024^k <= q, for a whole q >= 0
RECURSIVE AtLeastPow1024(_, _)
AtLeastPow1024(q, k) == IF k = 0 THEN q >= 1 ELSE AtLeastPow1024(q \div 1024, k - 1)

\* C10: for value and elapsed above 2e-6 and the default table of 9
\* prefixes, the power FileTransferSpeed selects is in 0..8 and is the largest
\* such power with 1024^power <= value / elapsed (0 when the speed is below 1).
C10_PowerIndexesTable ==
    (/\ args.fn = "FileTransferSpeed"
     /\ args.w.prefixes = FileTransferSpeed_prefixes
     /\ args.value >= 1
     /\ args.elapsed >= 1)
        => /\ ret.power \in 0..8
           /\ \A k \in 0..8 :
                 AtLeastPow1024(args.value \div args.elapsed, k) => k <= ret.power
           /\ AtLeastPow1024(args.value \div args.elapsed, ret.power)
                 \/ ret.power = 0

\* C11: ETA or AdaptiveETA rendered for an unfinished snapshot with a known
\* max_value and min_value <= value <= max_value, after any earlier renders,
\* returns a string: no division by zero (or any other exception) happens.
C11_ETANeverDividesByZero ==
    \A i \in 1..Len(rendered.calls) :
        LET p == rendered.progress
        IN  (/\ widgets[i].cls \in {"ETA", "AdaptiveETA"}
             /\ p.end_time = None
             /\ p.max_value # None
             /\ p.min_value <= p.value
             /\ p.value <= p.max_value[1])
                => rendered.calls[i].out.exc = ""

====
